---- MODULE Spec2Model ----
(***************************************************************************)
(* Logistics disruption monitor (idaraKI/Logistics-Agent).                 *)
(*                                                                         *)
(* Three programs of the repository are modelled, each from its source:    *)
(*   "api"  main.py + controller.py : POST /check -> run_logistics_check   *)
(*   "app"  streamlit_app.py        : one top-to-bottom script run per     *)
(*                                    widget interaction                   *)
(*   sa_monitor.py                  : the daily scheduler loop             *)
(*                                    (specification SpecMonitor)          *)
(* plus fetch_gdacs_rss as a pure function of the RSS feed it receives     *)
(* (specification SpecGdacs).                                              *)
(*                                                                         *)
(* Dates are day numbers.  Strings that the code only compares or passes   *)
(* on are tokens; strings the code cuts, parses, strips or formats are     *)
(* records of the parts the code looks at.  External services (HTTP APIs,  *)
(* LLMs) are inputs: every outcome they can produce is drawn with \E.      *)
(***************************************************************************)
EXTENDS Integers, Sequences, FiniteSets, TLC

\* ------------------------------------------------------------------ bounds
\* The day number the runs take place on (datetime.today().date()).
Today == 100
\* Dates a request or a widget may carry lie within Today +/- MaxOffset.
MaxOffset == 1
\* Longest list a source returns in the api / app pipelines.
MaxItems == 2

\* sa_monitor: ticks (one time.sleep(60) each) in a day, the tick of the day
\* at which the clock shows 07:00, and the ticks a run of the model lasts.
TicksPerDay == 2
JobTick == 1
MaxTicks == 7
\* fetch_gdacs_rss on its own: the longest feed, and how many days beyond
\* the widened window a far-away event lies.
MaxFeed == 2
FarDays == 3

\* ------------------------------------------------------- program constants
\* expand(): a single-day query is widened by 7 days on each side.
ExpandDays == 7
\* run_logistics_check: the holiday look-ahead, base_date + 7 days.
LookaheadDays == 7
\* fetch_gdacs_rss: fromdate_str[:16].
FromdateSlice == 16
\* fetch_gdacs_rss / fetch_newsdata: description[:200].
DescriptionSlice == 200
\* streamlit_app: the largest (end_date - start_date).days that is kept.
MaxRangeDays == 7
\* streamlit_app: end_date = start_date + 6 days when the range is too long.
ClampDays == 6

\* ------------------------------------------------------------- generalities
Min(a, b) == IF a <= b THEN a ELSE b

Range(s) == {s[i] : i \in 1..Len(s)}

SeqsUpTo(S, n) == UNION {[1..k -> S] : k \in 0..n}

NoDuplicates(s) == \A i, j \in 1..Len(s) : i # j => s[i] # s[j]

\* Optional[date]: {} is None, {d} is the date d.
NoneDate == {}
Some(d) == {d}
TheDate(o) == CHOOSE d \in o : TRUE

\* The outcome of a call: it returned `value`, or raised `exc`.
Returned(v) == [raised |-> FALSE, exc |-> "", value |-> v]
Raised(e, dummy) == [raised |-> TRUE, exc |-> e, value |-> dummy]

\* ------------------------------------------------- strings, part by part
\* Words the feeds and the country table are written in, and str.lower()/upper()
\* on them.
Lower(w) ==
    CASE w = "Kenya"  -> "kenya"
      [] w = "KENYA"  -> "kenya"
      [] w = "Kenneth" -> "kenneth"
      [] w = "KEN"    -> "ken"
      [] w = "KE"     -> "ke"
      [] w = "Peru"   -> "peru"
      [] w = "Flood"  -> "flood"
      [] w = "XX"     -> "xx"
      [] w = "Green"  -> "green"
      [] w = "Red"    -> "red"
      [] w = "FL"     -> "fl"
      [] w = "EQ"     -> "eq"
      [] OTHER        -> w

Upper(w) ==
    CASE w = "ke"    -> "KE"
      [] w = "ken"   -> "KEN"
      [] w = "xx"    -> "XX"
      [] w = "Green" -> "GREEN"
      [] w = "Red"   -> "RED"
      [] w = "green" -> "GREEN"
      [] w = "red"   -> "RED"
      [] w = "fl"    -> "FL"
      [] w = "eq"    -> "EQ"
      [] OTHER       -> w

\* `a in b` for two lowercase words: equal, or a proper substring.
IsSubstring(a, b) ==
    \/ a = b
    \/ <<a, b>> \in {<<"ken", "kenya">>, <<"ken", "kenneth">>, <<"ke", "kenya">>,
                     <<"ke", "ken">>, <<"ke", "kenneth">>}

\* A text whose length the code cuts: what it says, and how many characters.
Cut(text, n) == [text EXCEPT !.len = Min(text.len, n)]

\* A gdacs:fromdate text, "Mon, 02 Nov 2026 10:00:00 GMT": `parts` are the
\* lengths of its date part ("Mon, 02 Nov 2026" or "Mon, 2 Nov 2026"), the
\* blank, the hour digits, the colon, the minute digits and the rest;
\* `kept` are how many characters of each part a slice has left.  A text that
\* is no date at all (an empty or missing element) has wf = FALSE.
DateText(d, dateLen, hLen, mLen, tailLen) ==
    LET p == <<dateLen, 1, hLen, 1, mLen, tailLen>>
    IN  [wf |-> TRUE, date |-> d, parts |-> p, kept |-> p]

NoDateText == [wf |-> FALSE, date |-> 0, parts |-> <<0, 0, 0, 0, 0, 0>>,
               kept |-> <<0, 0, 0, 0, 0, 0>>]

RECURSIVE SumTo(_, _)
SumTo(s, k) == IF k = 0 THEN 0 ELSE s[k] + SumTo(s, k - 1)

\* text[:n]
Slice(text, n) ==
    [text EXCEPT !.kept =
        [i \in 1..6 |->
            LET before == SumTo(text.kept, i - 1)
            IN  IF n <= before THEN 0 ELSE Min(text.kept[i], n - before)]]

\* datetime.strptime(text, "%a, %d %b %Y %H:%M").date(): the whole text must
\* match: the date part, a blank, the hour, a colon, at least one minute digit,
\* and nothing after it.
Strptime(text) ==
    IF /\ text.wf
       /\ text.kept[1] = text.parts[1]
       /\ text.kept[2] = 1
       /\ text.kept[3] = text.parts[3]
       /\ text.kept[4] = 1
       /\ text.kept[5] >= 1
       /\ text.kept[6] = 0
    THEN Returned(text.date)
    ELSE Raised("ValueError", 0)

\* An LLM's answer: a body, with or without white space around it.
Strip(t) == [t EXCEPT !.ws_l = FALSE, !.ws_r = FALSE]

PlainText(b) == [ws_l |-> FALSE, body |-> b, ws_r |-> FALSE]

\* ------------------------------------------------- controller.py: countries
\* pycountry.countries, as far as the model asks it.
Countries ==
    { [alpha_2 |-> "KE", alpha_3 |-> "KEN", name |-> "Kenya", common_name |-> ""] }

\* len(code) of a country code.
CodeLen(c) == IF c \in {"KEN", "ken"} THEN 3 ELSE 2

_resolve(code) ==
    LET c == Upper(code)
        hits == IF CodeLen(c) = 3
                THEN {x \in Countries : x.alpha_3 = c}
                ELSE {x \in Countries : x.alpha_2 = c}
    IN  hits

to_iso2(code) ==
    LET c == _resolve(code)
    IN  IF c # {} THEN (CHOOSE x \in c : TRUE).alpha_2 ELSE Upper(code)

_terms(code) ==
    LET c == _resolve(code)
    IN  IF c # {}
        THEN LET x == CHOOSE y \in c : TRUE
             IN  {Lower(x.name), Lower(x.alpha_3)}
                 \cup (IF x.common_name # "" THEN {Lower(x.common_name)} ELSE {})
        ELSE {Lower(code)}

\* expand(from_date, to_date) on Optional dates.
expand(from_date, to_date) ==
    IF from_date = to_date /\ from_date # NoneDate
    THEN <<Some(TheDate(from_date) - ExpandDays), Some(TheDate(to_date) + ExpandDays)>>
    ELSE <<from_date, to_date>>

\* ------------------------------------------- controller.py: fetch_gdacs_rss
\* (title + " " + country).lower() contains the term t.
Mentions(item, t) ==
    \E w \in Range(item.title) \cup Range(item.country) : IsSubstring(t, Lower(w))

\* The "Date filter" block of the loop: TRUE when the item goes on to be
\* appended, FALSE on `continue`.  A to_date of None makes the comparison
\* raise inside the try, which the `except Exception: pass` swallows.
PassesDateFilter(item, from_date, to_date) ==
    LET parsed == Strptime(Slice(item.fromdate, FromdateSlice))
    IN  IF parsed.raised THEN TRUE
        ELSE IF from_date = NoneDate \/ to_date = NoneDate THEN TRUE
        ELSE TheDate(from_date) <= parsed.value /\ parsed.value <= TheDate(to_date)

\* The f-string appended for an item.
FormatGdacs(item) ==
    [src     |-> "GDACS",
     alert   |-> Upper(item.alertlevel),
     type    |-> Upper(item.eventtype),
     title   |-> item.title,
     date    |-> item.fromdate,
     origin  |-> item.country,
     details |-> Cut(item.description, DescriptionSlice),
     link    |-> item.link]

\* resp: what requests.get met (kind: "ok", "conn_error", "http_error"), whether
\* the body is well-formed XML, and the <item> elements in document order.
fetch_gdacs_rss(resp, country_code, from_date0, to_date0) ==
    LET w     == expand(from_date0, to_date0)
        terms == _terms(country_code)
        kept  == SelectSeq(resp.items,
                     LAMBDA item : /\ \E t \in terms : Mentions(item, t)
                                   /\ PassesDateFilter(item, w[1], w[2]))
    IN  IF resp.kind # "ok" THEN Returned(<<>>)
        ELSE IF ~resp.xml_ok THEN Raised("ParseError", <<>>)
        ELSE Returned([i \in 1..Len(kept) |-> FormatGdacs(kept[i])])

\* -------------------------------------------- controller.py: fetch_newsdata
\* `x or default` on a field that is "" when missing, null or empty.
OrElse(x, default) == IF x = "" THEN default ELSE x

FormatNewsdata(article) ==
    [src     |-> "NEWSDATA",
     alert   |-> "NEWS",
     type    |-> "NEWS",
     title   |-> <<OrElse(article.title, "No title")>>,
     date    |-> article.pubDate,
     origin  |-> <<OrElse(article.source_id, "unknown")>>,
     details |-> Cut(article.description, DescriptionSlice),
     link    |-> article.link]

\* resp: kind as above, whether the body decodes as JSON, and its "results".
fetch_newsdata(resp, country_code, from_date0, to_date0) ==
    IF resp.kind # "ok" THEN Returned(<<>>)
    ELSE IF ~resp.json_ok THEN Raised("JSONDecodeError", <<>>)
    ELSE Returned([i \in 1..Len(resp.results) |-> FormatNewsdata(resp.results[i])])

\* -------------------------------------------- controller.py: fetch_holidays
fetch_holidays(resp, country_code) ==
    IF resp.kind # "ok" \/ ~resp.json_ok THEN <<>>
    ELSE LET hits == SelectSeq(resp.holidays,
                         LAMBDA h : h.date # "" /\ h.name # "")
         IN  [i \in 1..Len(hits) |-> <<hits[i].date, hits[i].name>>]

\* --------------------------------------- controller.py: run_logistics_check
VARIABLES
    program,      \* which program this run of the system is: "api" or "app"
    apiPc,        \* POST /check: "idle" or "responded"
    request,      \* the CheckRequest being served
    calls,        \* what the request made the server call, and with what
    result,       \* what run_logistics_check returned or raised
    response      \* the HTTP response

NoText == PlainText("")

NoCalls ==
    [nager |-> FALSE, holiday_llm |-> FALSE, holiday_prompt |-> <<>>,
     holiday_output |-> NoText, sources |-> {}, fetched |-> <<>>,
     disaster_llm |-> FALSE, events |-> <<>>,
     summary_llm |-> FALSE, summary_input |-> <<>>]

\* (selected_date if date_mode == "Single date" else start_date) > today
MutPeriodType(date_mode, selected_date, start_date, today) ==
    IF selected_date = NoneDate THEN Raised("TypeError", "")
    ELSE Returned(IF TheDate(selected_date) > today THEN "future" ELSE "past_or_present")

PeriodType(date_mode, selected_date, start_date, today) ==
    LET x == IF date_mode = "Single date" THEN selected_date ELSE start_date
    IN  IF x = NoneDate THEN Raised("TypeError", "")
        ELSE Returned(IF TheDate(x) > today THEN "future" ELSE "past_or_present")

\* fetch_gdacs_rss(...) + fetch_newsdata(...)
MergeEvents(gdacs_events, newsdata_events) == gdacs_events \o newsdata_events

\* "\n".join(holiday_list) or "NO_PUBLIC_HOLIDAYS"
HolidayText(holiday_list) ==
    IF holiday_list = <<>> THEN <<"NO_PUBLIC_HOLIDAYS">> ELSE holiday_list

\* env: the outcome of every outside call the request may make.
run_logistics_check(req, env, today) ==
    LET period == PeriodType(req.date_mode, req.selected_date, req.start_date, today)
        holiday_list == fetch_holidays(env.nager, req.country_code)
        c1 == [NoCalls EXCEPT !.nager = TRUE]
        c2 == [c1 EXCEPT !.holiday_llm = TRUE,
                         !.holiday_prompt = <<HolidayText(holiday_list),
                                              req.from_date_str.date + LookaheadDays>>]
        fd == IF req.date_mode = "Single date" THEN req.selected_date ELSE req.start_date
        td == IF req.date_mode = "Single date" THEN req.selected_date ELSE req.end_date
        gdacs == fetch_gdacs_rss(env.gdacs, req.country_code, fd, td)
        news  == fetch_newsdata(env.newsdata, req.country_code, fd, td)
        c2r == [c2 EXCEPT !.holiday_output = env.holiday_llm.value]
        c3 == [c2r EXCEPT !.sources = {"gdacs"}]
        c4 == [c2r EXCEPT !.sources = {"gdacs", "newsdata"},
                          !.fetched = <<gdacs.value, news.value>>]
        all_events == MergeEvents(gdacs.value, news.value)
        c5 == IF all_events = <<>> THEN c4
              ELSE [c4 EXCEPT !.disaster_llm = TRUE, !.events = all_events]
        disaster == IF all_events = <<>>
                    THEN Returned(PlainText("NO_DISRUPTION_EVENTS"))
                    ELSE env.disaster_llm
        c6 == [c5 EXCEPT !.summary_llm = TRUE,
                         !.summary_input = <<env.holiday_llm.value, disaster.value>>]
    IN  IF period.raised THEN [result |-> Raised(period.exc, NoText), calls |-> NoCalls]
        ELSE IF ~req.from_date_str.wf
             THEN [result |-> Raised("ValueError", NoText), calls |-> c1]
        ELSE IF env.holiday_llm.raised
             THEN [result |-> Raised(env.holiday_llm.exc, NoText), calls |-> c2]
        ELSE IF period.value = "future"
             THEN [result |-> Returned(Strip(env.holiday_llm.value)), calls |-> c2r]
        ELSE IF gdacs.raised
             THEN [result |-> Raised(gdacs.exc, NoText), calls |-> c3]
        ELSE IF news.raised
             THEN [result |-> Raised(news.exc, NoText), calls |-> c4]
        ELSE IF disaster.raised
             THEN [result |-> Raised(disaster.exc, NoText), calls |-> c5]
        ELSE IF env.summary_llm.raised
             THEN [result |-> Raised(env.summary_llm.exc, NoText), calls |-> c6]
        ELSE [result |-> Returned(Strip(env.summary_llm.value)), calls |-> c6]

\* ------------------------------------------- main.py: check_logistics_risk
NoResponse == [code |-> 0, alert |-> NoText, status |-> "", detail |-> ""]

MutBuildResponse(r) ==
    IF r.raised
    THEN [code |-> 200, alert |-> PlainText(r.exc), status |-> "success", detail |-> ""]
    ELSE [code |-> 200, alert |-> r.value, status |-> "success", detail |-> ""]

\* return CheckResponse(alert=result, ...) / raise HTTPException(500, str(e))
BuildResponse(r) ==
    IF r.raised
    THEN [code |-> 500, alert |-> NoText, status |-> "", detail |-> r.exc]
    ELSE [code |-> 200, alert |-> r.value, status |-> "success", detail |-> ""]

\* ------------------------------------------------ inputs of the api program
OptDates == {NoneDate} \cup {Some(d) : d \in (Today - MaxOffset)..(Today + MaxOffset)}

FromDateStrs == {[wf |-> TRUE, date |-> Today], [wf |-> FALSE, date |-> 0]}

Requests ==
    [country_code : {"ke"}, date_mode : {"Single date", "Date range"},
     selected_date : OptDates, start_date : OptDates,
     end_date : {NoneDate, Some(Today)}, from_date_str : FromDateStrs]

NoRequest ==
    [country_code |-> "", date_mode |-> "", selected_date |-> NoneDate,
     start_date |-> NoneDate, end_date |-> NoneDate,
     from_date_str |-> [wf |-> FALSE, date |-> 0]]

\* An LLM call returns some text or raises.
LLMOutcomes(body) ==
    {Raised("LLMError", NoText), Returned(PlainText(body)),
     Returned([ws_l |-> TRUE, body |-> body, ws_r |-> TRUE])}

\* A GDACS item about Kenya that starts today.
KenyaItem ==
    [title |-> <<"Flood", "Kenya">>, country |-> <<"Kenya">>,
     fromdate |-> DateText(Today, 16, 2, 2, 7), alertlevel |-> "Green",
     eventtype |-> "FL", description |-> [text |-> "d1", len |-> 250],
     link |-> "l1"]

GdacsResponses(items, n) ==
    {[kind |-> "conn_error", xml_ok |-> FALSE, items |-> <<>>],
     [kind |-> "http_error", xml_ok |-> FALSE, items |-> <<>>],
     [kind |-> "ok", xml_ok |-> FALSE, items |-> <<>>]}
    \cup {[kind |-> "ok", xml_ok |-> TRUE, items |-> f] : f \in SeqsUpTo(items, n)}

Article1 ==
    [title |-> "Strike", description |-> [text |-> "d2", len |-> 120],
     pubDate |-> NoDateText, source_id |-> "", link |-> "l2"]

NewsdataResponses ==
    {[kind |-> "conn_error", json_ok |-> FALSE, results |-> <<>>],
     [kind |-> "ok", json_ok |-> FALSE, results |-> <<>>]}
    \cup {[kind |-> "ok", json_ok |-> TRUE, results |-> r] :
              r \in SeqsUpTo({Article1}, MaxItems)}

NagerResponses ==
    {[kind |-> "conn_error", json_ok |-> FALSE, holidays |-> <<>>],
     [kind |-> "ok", json_ok |-> FALSE, holidays |-> <<>>],
     [kind |-> "ok", json_ok |-> TRUE,
      holidays |-> <<[date |-> "2026-12-12", name |-> "Jamhuri Day"],
                     [date |-> "", name |-> "x"]>>]}

ApiEnvs ==
    [nager : NagerResponses, holiday_llm : LLMOutcomes("H"),
     gdacs : GdacsResponses({KenyaItem}, MaxItems), newsdata : NewsdataResponses,
     disaster_llm : {Raised("LLMError", NoText), Returned(PlainText("D"))},
     summary_llm : LLMOutcomes("S")]

\* ------------------------------------------------------- streamlit_app.py
VARIABLES
    widgets,        \* the sidebar widgets' values, kept from run to run
    session_state,  \* st.session_state
    appPc,          \* "waiting" for the user, or "rerun" after st.rerun()
    appRun          \* what the last run of the script did

\* strftime("%Y-%m-%d") and strftime("%B %d, %Y") of a date.
IsoDate(d) == [fmt |-> "%Y-%m-%d", date |-> d]
LongDate(d) == [fmt |-> "%B %d, %Y", date |-> d]

MutDateRangeInput(date_range, today) ==
    IF Len(date_range) = 2
    THEN LET start_date == date_range[1]
             end_date == IF date_range[2] - date_range[1] > MaxRangeDays
                         THEN start_date + ClampDays ELSE date_range[2]
         IN  [rerun |-> FALSE,
              names |-> {"date_range", "start_date", "end_date"},
              start_date |-> start_date, end_date |-> end_date,
              session_write |-> IF date_range[2] - date_range[1] > MaxRangeDays
                                THEN <<start_date, end_date>> ELSE <<>>,
              from_date_str |-> IsoDate(start_date),
              date_display |-> <<LongDate(start_date), LongDate(end_date)>>]
    ELSE [rerun |-> FALSE, names |-> {"date_range"},
          start_date |-> 0, end_date |-> 0, session_write |-> <<>>,
          from_date_str |-> IsoDate(today),
          date_display |-> <<LongDate(today)>>]

\* The `else:` branch of the sidebar, the "Date range" mode: the names it
\* binds, and whether it ended the run with st.rerun().
DateRangeInput(date_range, today) ==
    IF Len(date_range) = 2
    THEN LET start_date == date_range[1]
             end_date == date_range[2]
         IN  IF end_date - start_date > MaxRangeDays
             THEN [rerun |-> TRUE,
                   names |-> {"date_range", "start_date", "end_date"},
                   start_date |-> start_date, end_date |-> start_date + ClampDays,
                   session_write |-> <<start_date, start_date + ClampDays>>,
                   from_date_str |-> IsoDate(start_date),
                   date_display |-> <<>>]
             ELSE [rerun |-> FALSE,
                   names |-> {"date_range", "start_date", "end_date"},
                   start_date |-> start_date, end_date |-> end_date,
                   session_write |-> <<>>,
                   from_date_str |-> IsoDate(start_date),
                   date_display |-> <<LongDate(start_date), LongDate(end_date)>>]
    ELSE [rerun |-> FALSE, names |-> {"date_range"},
          start_date |-> 0, end_date |-> 0, session_write |-> <<>>,
          from_date_str |-> IsoDate(today),
          date_display |-> <<LongDate(today)>>]

\* The `if date_mode == "Single date":` branch of the sidebar.
SingleDateInput(selected_date) ==
    [rerun |-> FALSE, names |-> {"selected_date"},
     selected_date |-> selected_date, session_write |-> <<>>,
     from_date_str |-> IsoDate(selected_date),
     date_display |-> <<LongDate(selected_date)>>]

\* fetch_newsdata(): f"{title} - {description}" for every result with a title;
\* any failure gives [].
app_fetch_newsdata(resp) ==
    IF resp.kind # "ok" \/ ~resp.json_ok THEN <<>>
    ELSE LET titled == SelectSeq(resp.results, LAMBDA r : r.title # "")
         IN  [i \in 1..Len(titled) |-> <<titled[i].title, "-", titled[i].description>>]

\* fetch_tavily(): the "content" of every result; any failure gives [].
app_fetch_tavily(resp) ==
    IF resp.kind # "ok" THEN <<>>
    ELSE [i \in 1..Len(resp.results) |-> resp.results[i].content]

\* all_items = news_items + tavily_items
CombineItems(news_items, tavily_items) == news_items \o tavily_items

NoRun == [button |-> FALSE, outcome |-> "", exc |-> "", calls |-> NoCalls,
          alert |-> NoText]

\* One run of the script, top to bottom.  outcome: "rendered" (the page is
\* drawn), "rerun" (st.rerun() ended the run), "error" (an exception ended it).
AppScript(w, button, env, today) ==
    LET side == IF w.date_mode = "Single date"
                THEN SingleDateInput(w.selected_date)
                ELSE DateRangeInput(w.date_range, today)
        run0 == [NoRun EXCEPT !.button = button]
        name == IF w.date_mode = "Single date" THEN "selected_date" ELSE "start_date"
        period_type == IF side[name] > today THEN "future" ELSE "past_or_present"
        date_end == IF Len(side.date_display) = 2
                    THEN side.date_display[2] ELSE side.from_date_str
        c1 == [NoCalls EXCEPT !.holiday_llm = TRUE,
                              !.holiday_prompt = <<side.from_date_str, date_end>>]
        news_items == app_fetch_newsdata(env.newsdata)
        tavily_items == app_fetch_tavily(env.tavily)
        all_items == CombineItems(news_items, tavily_items)
        c1r == [c1 EXCEPT !.holiday_output = env.holiday_llm.value]
        c2 == IF period_type = "future" THEN c1r
              ELSE [c1r EXCEPT !.sources = {"newsdata", "tavily"},
                               !.fetched = <<news_items, tavily_items>>]
        c3 == IF period_type = "future" \/ all_items = <<>> THEN c2
              ELSE [c2 EXCEPT !.disaster_llm = TRUE, !.events = all_items]
        disaster == IF period_type = "future" \/ all_items = <<>>
                    THEN Returned(PlainText("NO_DISASTER_OR_MAJOR_EVENTS"))
                    ELSE env.disaster_llm
        c4 == [c3 EXCEPT !.summary_llm = TRUE,
                         !.summary_input = <<env.holiday_llm.value, disaster.value>>]
    IN  IF side.rerun
        THEN [run |-> [run0 EXCEPT !.outcome = "rerun"],
              session_write |-> side.session_write]
        ELSE [session_write |-> side.session_write,
              run |->
                IF ~button THEN [run0 EXCEPT !.outcome = "rendered"]
                ELSE IF name \notin side.names
                     THEN [run0 EXCEPT !.outcome = "error", !.exc = "NameError"]
                ELSE IF env.holiday_llm.raised
                     THEN [run0 EXCEPT !.outcome = "error", !.exc = "LLMError",
                                       !.calls = c1]
                ELSE IF disaster.raised
                     THEN [run0 EXCEPT !.outcome = "error", !.exc = "LLMError",
                                       !.calls = c3]
                ELSE IF env.summary_llm.raised
                     THEN [run0 EXCEPT !.outcome = "error", !.exc = "LLMError",
                                       !.calls = c4]
                ELSE [run0 EXCEPT !.outcome = "rendered", !.calls = c4,
                                  !.alert = Strip(env.summary_llm.value)]]

\* ------------------------------------------------- inputs of the app program
AppDates ==
    {Today + k * MaxRangeDays + j : k \in {-1, 0, 1}, j \in 0..MaxOffset}

\* What st.date_input gives for a range: no date, one date, or two in order.
DateRanges ==
    {<<>>} \cup {<<a>> : a \in AppDates}
    \cup {r \in AppDates \X AppDates : r[1] <= r[2]}

DefaultWidgets(mode, today) ==
    [date_mode |-> mode, selected_date |-> today, date_range |-> <<today, today>>]

AppNewsResponses ==
    {[kind |-> "conn_error", json_ok |-> FALSE, results |-> <<>>],
     [kind |-> "ok", json_ok |-> FALSE, results |-> <<>>]}
    \cup {[kind |-> "ok", json_ok |-> TRUE, results |-> r] :
            r \in SeqsUpTo({[title |-> "Strike", description |-> "d2"]}, MaxItems)}

TavilyResponses ==
    {[kind |-> "error", results |-> <<>>]}
    \cup {[kind |-> "ok", results |-> r] :
            r \in SeqsUpTo({[content |-> <<"Strike", "-", "d2">>]}, MaxItems)}

AppEnvs ==
    [holiday_llm : LLMOutcomes("H"), newsdata : AppNewsResponses,
     tavily : TavilyResponses,
     disaster_llm : {Raised("LLMError", NoText), Returned(PlainText("D"))},
     summary_llm : LLMOutcomes("S")]

\* The environment of a run in which the button is not pressed: nothing is
\* called, so any one will do.
AnyAppEnv == CHOOSE e \in AppEnvs : TRUE

\* ----------------------------------------------------------- sa_monitor.py
VARIABLES
    started,      \* the tick at which start_scheduler() was called
    now,          \* the clock, in ticks of one time.sleep(60)
    next_run,     \* the job's next_run, as the schedule library keeps it
    schedPc,      \* "loop" while the while-loop runs, "crashed" once it is left
    seen_titles,  \* the module's seen_titles set
    console       \* what each run of get_new_headlines did and printed

\* The names the module binds at top level (imports, keys, models, prompts,
\* chains, functions).
ModuleNames ==
    {"os", "time", "requests", "schedule", "datetime", "load_dotenv",
     "ChatOpenAI", "PromptTemplate", "StrOutputParser", "TavilyClient",
     "NEWSDATA_API_KEY", "TAVILY_API_KEY", "OPENROUTER_API_KEY", "seen_titles",
     "LLM_GATHER", "LLM_SUMMARIZE", "tavily", "gather_prompt", "gather_chain",
     "summary_prompt", "summary_chain", "NEWSDATA_URL", "fetch_newsdata",
     "fetch_tavily", "get_new_headlines", "start_scheduler"}

\* fetch_newsdata(): f"{title} - {description}" for every result with a title.
sa_fetch_newsdata(resp) ==
    IF resp.kind # "ok" \/ ~resp.json_ok
    THEN [failed |-> TRUE, value |-> <<>>]
    ELSE LET titled == SelectSeq(resp.results, LAMBDA r : r.title # "")
         IN  [failed |-> FALSE,
              value |-> [i \in 1..Len(titled) |->
                            <<titled[i].title, "-", titled[i].description>>]]

\* fetch_tavily(): the "content" of every result.
sa_fetch_tavily(resp) ==
    IF resp.kind # "ok"
    THEN [failed |-> TRUE, value |-> <<>>]
    ELSE [failed |-> FALSE,
          value |-> [i \in 1..Len(resp.results) |-> resp.results[i].content]]

\* chain.run(events=...): the name `chain` is looked up first.
RunChain(headlines, llm) ==
    IF "chain" \notin ModuleNames THEN Raised("NameError", NoText)
    ELSE llm

MutGetNewHeadlines(env) ==
    LET newsdata_articles == sa_fetch_newsdata(env.newsdata)
        tavily_event == sa_fetch_tavily(env.tavily)
        all_headlines == Range(tavily_event.value \o newsdata_articles.value)
        run0 == [news_failed |-> newsdata_articles.failed,
                 tavily_failed |-> tavily_event.failed,
                 headlines |-> all_headlines, llm_up |-> ~env.llm.raised,
                 to_analysis |-> {}, llm_invoked |-> FALSE,
                 printed |-> "", report |-> NoText, raised |-> FALSE]
        analysis == RunChain(all_headlines, env.llm)
    IN  IF all_headlines = {}
        THEN [run0 EXCEPT !.printed = "No logistics-impacting events detected today."]
        ELSE IF analysis.raised
             THEN [run0 EXCEPT !.to_analysis = all_headlines, !.raised = TRUE]
             ELSE [run0 EXCEPT !.to_analysis = all_headlines, !.llm_invoked = TRUE,
                               !.printed = "report", !.report = analysis.value]

\* One run of the job.  env: what NewsData, Tavily and the LLM answer.
\* list(set(...)) has no order of its own: all_headlines is a set.
get_new_headlines(env) ==
    LET newsdata_articles == sa_fetch_newsdata(env.newsdata)
        tavily_event == sa_fetch_tavily(env.tavily)
        all_headlines == Range(tavily_event.value \o newsdata_articles.value)
        run0 == [news_failed |-> newsdata_articles.failed,
                 tavily_failed |-> tavily_event.failed,
                 headlines |-> all_headlines, llm_up |-> ~env.llm.raised,
                 to_analysis |-> {}, llm_invoked |-> FALSE,
                 printed |-> "", report |-> NoText, raised |-> FALSE]
        analysis == RunChain(all_headlines, env.llm)
    IN  IF all_headlines = {}
        THEN [run0 EXCEPT !.printed = "No logistics-impacting events detected today."]
        ELSE IF analysis.raised
             THEN [run0 EXCEPT !.to_analysis = all_headlines,
                               !.printed = "Analysis failed"]
             ELSE [run0 EXCEPT !.to_analysis = all_headlines, !.llm_invoked = TRUE,
                               !.printed = "report", !.report = analysis.value]

\* The first tick after t at which the clock shows 07:00.
NextDue(t) ==
    CHOOSE d \in (t + 1)..(t + TicksPerDay) : d % TicksPerDay = JobTick

MonitorEnvs ==
    [newsdata : {[kind |-> "conn_error", json_ok |-> FALSE, results |-> <<>>],
                 [kind |-> "ok", json_ok |-> TRUE, results |-> <<>>],
                 [kind |-> "ok", json_ok |-> TRUE,
                  results |-> <<[title |-> "Strike", description |-> "d2"],
                                [title |-> "", description |-> "d3"]>>]},
     tavily : {[kind |-> "error", results |-> <<>>],
               [kind |-> "ok", results |-> <<>>],
               [kind |-> "ok", results |-> <<[content |-> <<"Strike", "-", "d2">>]>>],
               [kind |-> "ok", results |-> <<[content |-> <<"Port", "closed">>]>>]},
     llm : {Raised("LLMError", NoText), Returned(PlainText("R"))}]

\* -------------------------------------- fetch_gdacs_rss, called on its own
VARIABLES
    gdacsPc,   \* "ready" with the arguments drawn, "called" once it has run
    gdacsIn,   \* the arguments, and the response GDACS gives
    gdacsOut   \* what fetch_gdacs_rss returned or raised

\* A GDACS item: who it is about and when it starts (day, or 0 for none).
GdacsItem(title, country, fromdate) ==
    [title |-> title, country |-> country, fromdate |-> fromdate,
     alertlevel |-> "Red", eventtype |-> "EQ",
     description |-> [text |-> "d1", len |-> 250], link |-> "l1"]

\* Items about Kenya inside and outside a window around today, written with
\* a two- and a one-digit day, one without a date, one about Peru, and one
\* that names Kenya only in gdacs:country, in capitals.
GdacsItems ==
    {KenyaItem,
     GdacsItem(<<"Flood", "Kenya">>, <<"Kenya">>,
               DateText(Today - ExpandDays - FarDays, 16, 2, 2, 7)),
     GdacsItem(<<"Flood", "Kenya">>, <<"Kenya">>,
               DateText(Today + FarDays, 15, 1, 1, 0)),
     GdacsItem(<<"Flood", "Kenya">>, <<"Kenya">>, NoDateText),
     GdacsItem(<<"Flood", "Peru">>, <<"Peru">>, DateText(Today, 16, 2, 2, 7)),
     GdacsItem(<<"Flood">>, <<"KENYA">>, DateText(Today, 16, 2, 2, 7)),
     GdacsItem(<<"Flood", "Kenneth">>, <<>>, DateText(Today, 16, 2, 2, 7))}

GdacsInputs ==
    [country_code : {"ke", "ken", "xx"},
     from_date : {Some(Today)},
     to_date : {Some(Today), Some(Today + 1)},
     resp : GdacsResponses(GdacsItems, MaxFeed)]

NoGdacsInput ==
    [country_code |-> "", from_date |-> NoneDate, to_date |-> NoneDate,
     resp |-> [kind |-> "", xml_ok |-> FALSE, items |-> <<>>]]

GdacsIdle ==
    /\ gdacsPc = ""
    /\ gdacsIn = NoGdacsInput
    /\ gdacsOut = Returned(<<>>)

\* ----------------------------------------------------- Spec: api and app
vars == <<program, apiPc, request, calls, result, response,
          widgets, session_state, appPc, appRun,
          started, now, next_run, schedPc, seen_titles, console,
          gdacsPc, gdacsIn, gdacsOut>>

apiVars == <<apiPc, request, calls, result, response>>
appVars == <<widgets, session_state, appPc, appRun>>
monitorVars == <<started, now, next_run, schedPc, seen_titles, console>>
gdacsVars == <<gdacsPc, gdacsIn, gdacsOut>>

InitApi ==
    /\ apiPc = "idle"
    /\ request = NoRequest
    /\ calls = NoCalls
    /\ result = Returned(NoText)
    /\ response = NoResponse

InitApp ==
    /\ widgets = DefaultWidgets("Single date", Today)
    /\ session_state = <<>>
    /\ appPc = "waiting"
    /\ appRun = NoRun

\* POST /check: check_logistics_risk, run_logistics_check and all it calls.
CheckLogisticsRisk ==
    /\ program = "api"
    /\ apiPc = "idle"
    /\ \E req \in Requests, env \in ApiEnvs :
        LET r == run_logistics_check(req, env, Today)
        IN  /\ request' = req
            /\ calls' = r.calls
            /\ result' = r.result
            /\ response' = BuildResponse(r.result)
    /\ apiPc' = "responded"
    /\ UNCHANGED <<program, appVars, monitorVars, gdacsVars>>

\* The response is sent; the server waits for the next request.
NextRequest ==
    /\ program = "api"
    /\ apiPc = "responded"
    /\ apiPc' = "idle"
    /\ request' = NoRequest
    /\ calls' = NoCalls
    /\ result' = Returned(NoText)
    /\ response' = NoResponse
    /\ UNCHANGED <<program, appVars, monitorVars, gdacsVars>>

\* One run of the script with the widgets at w.
RunScript(w, button, env) ==
    LET r == AppScript(w, button, env, Today)
    IN  /\ widgets' = w
        /\ appRun' = r.run
        /\ session_state' = IF r.session_write # <<>> THEN r.session_write
                            ELSE session_state
        /\ appPc' = IF r.run.outcome = "rerun" THEN "rerun" ELSE "waiting"
        /\ UNCHANGED <<program, apiVars, monitorVars, gdacsVars>>

\* The user switches the date mode: the widget that now shows starts from its
\* default value.
ChooseDateMode ==
    /\ program = "app"
    /\ \E m \in {"Single date", "Date range"} :
        /\ m # widgets.date_mode
        /\ RunScript(DefaultWidgets(m, Today), FALSE, AnyAppEnv)

PickSingleDate ==
    /\ program = "app"
    /\ widgets.date_mode = "Single date"
    /\ \E d \in AppDates :
        RunScript([widgets EXCEPT !.selected_date = d], FALSE, AnyAppEnv)

PickDateRange ==
    /\ program = "app"
    /\ widgets.date_mode = "Date range"
    /\ \E r \in DateRanges :
        RunScript([widgets EXCEPT !.date_range = r], FALSE, AnyAppEnv)

\* The user presses "Run Logistics Check".
ClickRun ==
    /\ program = "app"
    /\ \E env \in AppEnvs : RunScript(widgets, TRUE, env)

\* st.rerun(): the script runs again, the button not pressed.
Rerun ==
    /\ program = "app"
    /\ appPc = "rerun"
    /\ RunScript(widgets, FALSE, AnyAppEnv)

\* start_scheduler() is called at some time of day; the job is registered for
\* the next 07:00.
InitMonitor ==
    /\ started \in 0..(TicksPerDay - 1)
    /\ now = started
    /\ next_run = NextDue(started)
    /\ schedPc = "loop"
    /\ seen_titles = {}
    /\ console = <<>>

\* The api and app programs: the scheduler is not what runs.
MonitorIdle ==
    /\ started = 0
    /\ now = 0
    /\ next_run = 0
    /\ schedPc = ""
    /\ seen_titles = {}
    /\ console = <<>>

Init ==
    /\ program \in {"api", "app"}
    /\ InitApi
    /\ InitApp
    /\ MonitorIdle
    /\ GdacsIdle

Next ==
    \/ CheckLogisticsRisk
    \/ NextRequest
    \/ ChooseDateMode
    \/ PickSingleDate
    \/ PickDateRange
    \/ ClickRun
    \/ Rerun

Spec == Init /\ [][Next]_vars


\* --------------------------------------------- SpecMonitor: the scheduler
\* One turn of the while-loop: schedule.run_pending(), then time.sleep(60).
\* An exception that leaves the job leaves run_pending and the loop.
RunPending ==
    /\ program = "sa_monitor"
    /\ schedPc = "loop"
    /\ now < MaxTicks
    /\ IF now >= next_run
       THEN \E env \in MonitorEnvs :
              LET run == get_new_headlines(env)
              IN  /\ console' = Append(console, run)
                  /\ schedPc' = IF run.raised THEN "crashed" ELSE "loop"
                  /\ next_run' = NextDue(now)
       ELSE UNCHANGED <<console, schedPc, next_run>>
    /\ now' = now + 1
    /\ UNCHANGED <<program, apiVars, appVars, gdacsVars, started, seen_titles>>

InitSA ==
    /\ program = "sa_monitor"
    /\ InitApi
    /\ InitApp
    /\ InitMonitor
    /\ GdacsIdle

NextMonitor == RunPending

SpecMonitor == InitSA /\ [][NextMonitor]_vars

\* ------------------------------------------- SpecGdacs: fetch_gdacs_rss
InitGdacs ==
    /\ program = "gdacs"
    /\ InitApi
    /\ InitApp
    /\ MonitorIdle
    /\ gdacsPc = "ready"
    /\ gdacsIn \in GdacsInputs
    /\ gdacsOut = Returned(<<>>)

CallFetchGdacs ==
    /\ program = "gdacs"
    /\ gdacsPc = "ready"
    /\ gdacsOut' = fetch_gdacs_rss(gdacsIn.resp, gdacsIn.country_code,
                                   gdacsIn.from_date, gdacsIn.to_date)
    /\ gdacsPc' = "called"
    /\ UNCHANGED <<program, apiVars, appVars, monitorVars, gdacsIn>>

NextGdacs == CallFetchGdacs

SpecGdacs == InitGdacs /\ [][NextGdacs]_vars

\* ------------------------------------------------------- claims under Spec
\* C1 (as the claim states it): every error met while obtaining or decoding a
\* source's response stays inside the fetcher, which returns []; so no request
\* ever fails with an exception that a fetcher raised.
C1_FetcherErrorsStayInside ==
    (apiPc = "responded" /\ result.raised)
        => result.exc \notin {"ParseError", "JSONDecodeError"}

\* C2 (as the claim states it): the events forwarded to the disaster LLM are
\* the set-union of the two sources' results: every fetched string is among
\* them, and none is there twice.
C2_ForwardedEventsAreSetUnion ==
    calls.disaster_llm =>
        /\ Range(calls.events) = Range(calls.fetched[1]) \cup Range(calls.fetched[2])
        /\ NoDuplicates(calls.events)

\* The request's period starts after today.
FutureRequest ==
    LET x == IF request.date_mode = "Single date"
             THEN request.selected_date ELSE request.start_date
    IN  x # NoneDate /\ TheDate(x) > Today

\* The widgets' period starts after today.
FutureWidgets ==
    IF widgets.date_mode = "Single date"
    THEN widgets.selected_date > Today
    ELSE Len(widgets.date_range) = 2 /\ widgets.date_range[1] > Today

\* C3: when the queried period starts in the future, no disruption source is
\* queried and the disaster LLM is not invoked, in run_logistics_check and in
\* the streamlit_app main block; in run_logistics_check the summary LLM is not
\* invoked either and the alert returned is the stripped holiday LLM output.
C3_FutureOnlyHolidays ==
    /\ (apiPc = "responded" /\ FutureRequest) =>
          /\ calls.sources = {}
          /\ ~calls.disaster_llm
          /\ ~calls.summary_llm
          /\ ~result.raised =>
                /\ calls.holiday_llm
                /\ result.value = Strip(calls.holiday_output)
                /\ response.alert = Strip(calls.holiday_output)
    /\ (program = "app" /\ appRun.button /\ FutureWidgets) =>
          /\ appRun.calls.sources = {}
          /\ ~appRun.calls.disaster_llm

\* A future request answered from a holiday LLM output that had white space
\* around it.
C3_Witness ==
    /\ apiPc = "responded"
    /\ FutureRequest
    /\ request.date_mode = "Date range"
    /\ ~result.raised
    /\ calls.holiday_output.ws_l
    /\ response.code = 200

\* C4: POST /check answers with alert = what run_logistics_check returned and
\* status "success" when it returns, and with HTTP 500 whose detail is the
\* exception's text, and no success response, when it raises.
C4_ResponseMirrorsResult ==
    apiPc = "responded" =>
        IF result.raised
        THEN /\ response.code = 500
             /\ response.detail = result.exc
             /\ response.status # "success"
        ELSE /\ response.code = 200
             /\ response.alert = result.value
             /\ response.status = "success"

\* A request that failed inside a fetcher and was answered with HTTP 500.
C4_Witness ==
    /\ apiPc = "responded"
    /\ result.raised
    /\ result.exc = "ParseError"
    /\ response.code = 500

\* The widgets hold a complete range longer than the limit.
RangeTooLong ==
    /\ program = "app"
    /\ widgets.date_mode = "Date range"
    /\ Len(widgets.date_range) = 2
    /\ widgets.date_range[2] - widgets.date_range[1] > MaxRangeDays

\* C8: no logistics check (no LLM call, no source fetch) is executed for a
\* selected range whose end_date minus start_date exceeds 7 days.
C8_NoCheckForLongRange ==
    RangeTooLong => appRun.calls = NoCalls

\* The button is pressed with a range of more than 7 days selected, and the
\* run ends in st.rerun().
C8_Witness ==
    /\ RangeTooLong
    /\ appRun.button
    /\ appRun.outcome = "rerun"

\* C9 (as the claim states it): with an incomplete range selected, pressing
\* the button runs the check for today's date, without raising an error.
C9_IncompleteRangeRunsForToday ==
    (/\ program = "app"
     /\ widgets.date_mode = "Date range"
     /\ Len(widgets.date_range) < 2
     /\ appRun.button)
        => /\ appRun.exc # "NameError"
           /\ appRun.calls.holiday_llm
           /\ appRun.calls.holiday_prompt = <<IsoDate(Today), IsoDate(Today)>>

\* ------------------------------------------------ claims under SpecMonitor
\* C5 (as the claim states it): seen_titles contains every headline processed
\* so far, and a headline that went to analysis in an earlier run does not go
\* to analysis again in a later run.
C5_SeenHeadlinesNotRepeated ==
    /\ \A i \in 1..Len(console) : console[i].to_analysis \subseteq seen_titles
    /\ \A i, j \in 1..Len(console) :
          i < j => console[i].to_analysis \cap console[j].to_analysis = {}

\* The 07:00 ticks that lie between the start of the scheduler and now.
DueTicks == {t \in (started + 1)..(now - 1) : t % TicksPerDay = JobTick}

\* C6: whatever fails inside a run of get_new_headlines, nothing leaves the
\* job: the loop goes on, and every 07:00 that has passed since the scheduler
\* started has had its run.
C6_SchedulerKeepsRunning ==
    program = "sa_monitor" =>
        /\ schedPc = "loop"
        /\ Len(console) = Cardinality(DueTicks)
        /\ \A i \in 1..Len(console) : ~console[i].raised

\* A run in which a fetch and the analysis failed, and the run of the day
\* after it.
C6_Witness ==
    /\ program = "sa_monitor"
    /\ schedPc = "loop"
    /\ Len(console) >= 2
    /\ console[1].news_failed
    /\ console[1].printed = "Analysis failed"

\* C7 (as the claim states it): a run with no headline invokes no LLM and
\* prints the no-events line; a run with at least one headline, the LLM
\* answering, passes the headlines to the analysis chain and prints its report.
C7_ReportPrinted ==
    \A i \in 1..Len(console) :
        LET run == console[i]
        IN  /\ run.headlines = {} =>
                /\ ~run.llm_invoked
                /\ run.printed = "No logistics-impacting events detected today."
            /\ (run.headlines # {} /\ run.llm_up) =>
                /\ run.llm_invoked
                /\ run.printed = "report"

\* ---------------------------------------------------- claims under SpecGdacs
\* The date a gdacs:fromdate text states: the text up to its minutes, read as
\* "%a, %d %b %Y %H:%M".
StatedDate(text) == Strptime([text EXCEPT !.kept[6] = 0])

\* C10 (as the claim states it): the events returned are, in feed order, the
\* formatted items that mention the country and whose fromdate either states a
\* date inside the expanded window or cannot be parsed; an item with a
\* parseable date outside the window is not returned.
C10_ReturnsMatchingItemsInWindow ==
    (gdacsPc = "called" /\ ~gdacsOut.raised /\ gdacsIn.resp.kind = "ok") =>
        LET w == expand(gdacsIn.from_date, gdacsIn.to_date)
            terms == _terms(gdacsIn.country_code)
            wanted == SelectSeq(gdacsIn.resp.items,
                        LAMBDA item :
                          /\ \E t \in terms : Mentions(item, t)
                          /\ \/ StatedDate(item.fromdate).raised
                             \/ /\ TheDate(w[1]) <= StatedDate(item.fromdate).value
                                /\ StatedDate(item.fromdate).value <= TheDate(w[2]))
        IN  gdacsOut.value = [i \in 1..Len(wanted) |-> FormatGdacs(wanted[i])]

====
